---- MODULE Spec2Model ----
(***************************************************************************)
(* Model of quickunit/plugin.py (QuickUnitPlugin): the diff is reduced to  *)
(* a change set and a set of pending test paths (begin), tests are         *)
(* selected against them (wantMethod), line captures taken around imports  *)
(* and tests are intersected with the change set (record_coverage_data)    *)
(* and merged into the report (_report_test_coverage).                     *)
(*                                                                         *)
(* Paths are TLA+ strings; a dict is a function whose DOMAIN is its key    *)
(* set; a defaultdict read that misses inserts the key, as in Python.      *)
(***************************************************************************)
EXTENDS Integers, Sequences, FiniteSets, TLC

VARIABLES
    phase,                \* position of the run: "configured", "running", "reporting", "reported"
    prefixes,             \* self.prefixes
    files,                \* begin(): files = list(parser.parse())
    diff_data,            \* self.diff_data: filename -> set of linenos
    pending_files,        \* self.pending_files
    root,                 \* self.root ("" models None)
    tests_run,            \* self.tests_run
    ret,                  \* the last wantMethod call and its return value
    n_want,               \* number of wantMethod calls made
    cov,                  \* self.coverage: [started, data: filename -> executed linenos]
    test_cov_data,        \* self.test_cov_data: test name -> {filename: linenos}
    importtime_cov_data,  \* self.importtime_cov_data: module -> {filename: linenos}
    test_to_module_map,   \* self.test_to_module_map
    running,              \* the runner: the test whose bracket is open, or None
    importing,            \* the runner: the module whose import bracket is open, or None
    executed,             \* history: <<test, filename, lineno>> executed inside the test's bracket
    n_brackets,           \* number of brackets opened
    n_exec,               \* number of lines executed under capture
    rp,                   \* _report_test_coverage: position in its loops
    missing,              \* _report_test_coverage: missing
    data,                 \* _report_test_coverage: data
    report_file           \* what was written to self.report_file, or None

selvars == <<prefixes, files, diff_data, pending_files, root, tests_run, ret, n_want>>
covvars == <<cov, test_cov_data, importtime_cov_data, test_to_module_map>>
runvars == <<running, importing, executed, n_brackets, n_exec>>
repvars == <<rp, missing, data, report_file>>
vars == <<phase, selvars, covvars, runvars, repvars>>

-----------------------------------------------------------------------------
(* Bounds *)

\* a diff has at most this many file records plus body lines, together
MaxDiffSize == 3
\* wantMethod calls in one run
MaxWant == 1
\* hook calls (wantMethod, startTest, beforeImport) in one run
MaxCalls == 3
\* lines executed inside brackets in one run
MaxExec == 2

-----------------------------------------------------------------------------
(* Python string and path operations *)

None == "None"
DevNull == "/dev/null"
Cwd == "/r/"

startswith(s, p) == Len(p) <= Len(s) /\ SubSeq(s, 1, Len(p)) = p

endswith(s, p) == Len(p) <= Len(s) /\ SubSeq(s, Len(s) - Len(p) + 1, Len(s)) = p

\* s[n:]
StrFrom(s, n) == SubSeq(s, n + 1, Len(s))

\* s.rsplit('.', 1)[0]
rsplit_dot(s) ==
    LET dots == {i \in 1..Len(s) : SubSeq(s, i, i) = "."}
    IN  IF dots = {} THEN s
        ELSE SubSeq(s, 1, (CHOOSE i \in dots : \A j \in dots : j <= i) - 1)

\* os.path.join(a, p)
os_path_join(a, p) ==
    IF startswith(p, "/") THEN p
    ELSE IF a = "" \/ endswith(a, "/") THEN a \o p
    ELSE a \o "/" \o p

\* os.path.abspath(filename)[:-len(filename)] for a relative filename
abspath_root(filename) == Cwd

\* quickunit.utils.is_py_script: the recognized source-file type
is_py_script(filename) == endswith(filename, ".py")

\* d[k] = d.get(k, set()) | v   on a dict modelled as a function
DictUpdate(d, k, v) ==
    IF k \in DOMAIN d THEN [d EXCEPT ![k] = @ \cup v] ELSE (k :> v) @@ d

\* the value a defaultdict(set) read returns
DefaultGet(d, k) == IF k \in DOMAIN d THEN d[k] ELSE {}

\* the dict after a defaultdict(set) read of key k
DefaultTouch(d, k) == IF k \in DOMAIN d THEN d ELSE (k :> {}) @@ d

-----------------------------------------------------------------------------
(* The diff parser's output (quickunit.diff.DiffParser) *)

\* body line forms of a hunk: kind and text
LineForms ==
    { [kind |-> "added",   text |-> "x"],
      [kind |-> "added",   text |-> ""],
      [kind |-> "context", text |-> "x"],
      [kind |-> "removed", text |-> "x"] }

\* new-range starts of the first and second hunk of a file
HunkStarts == <<10, 12>>

\* a hunk body: k-th added or context line (0-indexed) gets new_start + k,
\* removed lines get no new_lineno (0 models the empty value)
ParseHunk(new_start, body) ==
    [i \in 1..Len(body) |->
        [ action     |-> body[i].kind,
          new_lineno |-> IF body[i].kind = "removed" THEN 0
                         ELSE new_start
                              + Cardinality({j \in 1..(i-1) : body[j].kind # "removed"}),
          line       |-> body[i].text ] ]

\* one file record of the parser's output
FileDiffRecord(is_header, old, new, bodies) ==
    [ is_header    |-> is_header,
      old_filename |-> old,
      new_filename |-> new,
      chunks       |-> [h \in 1..Len(bodies) |-> ParseHunk(HunkStarts[h], bodies[h])] ]

\* (old filename, new filename) of the file records
FilePairs ==
    { <<"a/pkg/foo.py", "b/pkg/foo.py">>,                       \* modified production file
      <<DevNull, "b/pkg/new.py">>,                              \* newly created file
      <<"a/pkg/old.py", DevNull>>,                              \* deleted file
      <<"a/tests/pkg/test_bar.py", "b/tests/pkg/test_bar.py">>, \* modified test file
      <<"a/README.txt", "b/README.txt">>,                       \* not a source file
      <<"a/pkg/foo.py_gen.py", "b/pkg/foo.py_gen.py">> }        \* stem extends a test file's path

Bodies(n) == UNION {[1..k -> LineForms] : k \in 1..n}

\* the hunk bodies of one file with at most n body lines: none, one or two hunks
HunkSeqs(n) ==
    {<<>>}
    \cup {<<b>> : b \in Bodies(n)}
    \cup {<<b1, b2>> : b1 \in Bodies(n - 1), b2 \in Bodies(n - 1)}

NLines(bodies) ==
    IF Len(bodies) = 0 THEN 0
    ELSE IF Len(bodies) = 1 THEN Len(bodies[1])
    ELSE Len(bodies[1]) + Len(bodies[2])

\* file records of size (1 + body lines) at most n
Records(n) ==
    IF n < 1 THEN {}
    ELSE {FileDiffRecord(TRUE, None, None, <<>>)}
         \cup { FileDiffRecord(FALSE, p[1], p[2], hs) :
                    p \in FilePairs,
                    hs \in {h \in HunkSeqs(n - 1) : NLines(h) <= n - 1} }

RecordSize(r) ==
    1 + (IF Len(r.chunks) = 0 THEN 0
         ELSE IF Len(r.chunks) = 1 THEN Len(r.chunks[1])
         ELSE Len(r.chunks[1]) + Len(r.chunks[2]))

\* the parsed diffs of size at most n
RECURSIVE DiffsUpTo(_)
DiffsUpTo(n) ==
    {<<>>} \cup UNION { { <<r>> \o rest : rest \in DiffsUpTo(n - RecordSize(r)) } :
                            r \in Records(n) }

Diffs == DiffsUpTo(MaxDiffSize)

-----------------------------------------------------------------------------
(* begin() *)

\* linenos = filter(bool, (l['new_lineno'] for l in chunk if l['line']))
ChunkLinenos(chunk) ==
    { chunk[i].new_lineno :
        i \in {j \in 1..Len(chunk) : chunk[j].line # "" /\ chunk[j].new_lineno # 0} }

\* for chunk in file['chunks']: diff[new_filename].update(linenos)
RECURSIVE UpdateChunks(_, _, _, _)
UpdateChunks(diff, new_filename, chunks, i) ==
    IF i > Len(chunks) THEN diff
    ELSE UpdateChunks(DictUpdate(diff, new_filename, ChunkLinenos(chunks[i])),
                      new_filename, chunks, i + 1)

\* PendingFor with the extension left on the path
PendingFor_KeepExt(pfx, new_filename) ==
    { os_path_join(pfx[i], new_filename) : i \in 1..Len(pfx) }

\* for prefix in self.prefixes: self.pending_files.add(os.path.join(prefix, ...))
PendingFor(pfx, new_filename) ==
    { os_path_join(pfx[i], rsplit_dot(new_filename)) : i \in 1..Len(pfx) }

\* BeginFile without the "file was removed" skip
BeginFile_KeepDeleted(file, pfx, st) ==
    IF file.is_header THEN st
    ELSE LET is_new_file == (file.old_filename = DevNull)
             prefixed    == IF is_new_file THEN file.new_filename ELSE file.old_filename
         IN  IF ~startswith(prefixed, IF is_new_file THEN "b/" ELSE "a/") THEN st
             ELSE LET filename     == StrFrom(prefixed, 2)
                      st1          == IF st.root = "" THEN [st EXCEPT !.root = abspath_root(filename)]
                                      ELSE st
                      new_filename == StrFrom(file.new_filename, 2)
                  IN  IF ~is_py_script(filename) THEN st1
                      ELSE LET st2 == [st1 EXCEPT !.diff =
                                          UpdateChunks(st1.diff, new_filename, file.chunks, 1)]
                           IN  IF is_new_file THEN st2
                               ELSE [st2 EXCEPT !.pending = @ \cup PendingFor(pfx, new_filename)]

\* BeginFile without the "if is_new_file: continue" before the pending paths
BeginFile_PendingForNew(file, pfx, st) ==
    IF file.is_header THEN st
    ELSE IF file.new_filename = DevNull THEN st
    ELSE LET is_new_file == (file.old_filename = DevNull)
             prefixed    == IF is_new_file THEN file.new_filename ELSE file.old_filename
         IN  IF ~startswith(prefixed, IF is_new_file THEN "b/" ELSE "a/") THEN st
             ELSE LET filename     == StrFrom(prefixed, 2)
                      st1          == IF st.root = "" THEN [st EXCEPT !.root = abspath_root(filename)]
                                      ELSE st
                      new_filename == StrFrom(file.new_filename, 2)
                  IN  IF ~is_py_script(filename) THEN st1
                      ELSE [st1 EXCEPT
                              !.diff = UpdateChunks(st1.diff, new_filename, file.chunks, 1),
                              !.pending = @ \cup PendingFor(pfx, new_filename)]

\* one iteration of "for file in files", on st = [diff, pending, root]
BeginFile(file, pfx, st) ==
    IF file.is_header THEN st
    ELSE IF file.new_filename = DevNull THEN st
    ELSE LET is_new_file == (file.old_filename = DevNull)
             prefixed    == IF is_new_file THEN file.new_filename ELSE file.old_filename
         IN  IF ~startswith(prefixed, IF is_new_file THEN "b/" ELSE "a/") THEN st
             ELSE LET filename     == StrFrom(prefixed, 2)
                      st1          == IF st.root = "" THEN [st EXCEPT !.root = abspath_root(filename)]
                                      ELSE st
                      new_filename == StrFrom(file.new_filename, 2)
                  IN  IF ~is_py_script(filename) THEN st1
                      ELSE LET st2 == [st1 EXCEPT !.diff =
                                          UpdateChunks(st1.diff, new_filename, file.chunks, 1)]
                           IN  IF is_new_file THEN st2
                               ELSE [st2 EXCEPT !.pending = @ \cup PendingFor(pfx, new_filename)]

RECURSIVE BeginLoop(_, _, _, _)
BeginLoop(fs, i, pfx, st) ==
    IF i > Len(fs) THEN st
    ELSE BeginLoop(fs, i + 1, pfx, BeginFile(fs[i], pfx, st))

-----------------------------------------------------------------------------
(* The tests nose offers to wantMethod: the class that defines the method,  *)
(* the file inspect.getfile gives for it, the class's source lines          *)
(* (inspect.getsourcelines of the class) and the method's own.              *)

Method(name, module, file, cls_start, cls_len, m_start, m_len) ==
    [ name |-> name, module |-> module, file |-> file,
      cls_start |-> cls_start, cls_len |-> cls_len,
      m_start |-> m_start, m_len |-> m_len ]

Methods ==
    { Method("tests.pkg.foo:FooTest.test_a", "tests.pkg.foo",
             Cwd \o "tests/pkg/foo.py", 9, 3, 10, 2),
      Method("tests.pkg.foo.test_x:XTest.test_a", "tests.pkg.foo.test_x",
             Cwd \o "tests/pkg/foo/test_x.py", 9, 3, 10, 2),
      Method("tests.pkg.test_foo:FooTest.test_a", "tests.pkg.test_foo",
             Cwd \o "tests/pkg/test_foo.py", 9, 3, 10, 2),
      Method("tests.pkg.test_bar:BarTest.test_a", "tests.pkg.test_bar",
             Cwd \o "tests/pkg/test_bar.py", 9, 5, 10, 2),
      Method("tests.pkg.test_bar:BarTest.test_b", "tests.pkg.test_bar",
             Cwd \o "tests/pkg/test_bar.py", 9, 5, 12, 2),
      Method("pkg.foo:SelfTest.test_a", "pkg.foo",
             Cwd \o "pkg/foo.py", 9, 3, 10, 2) }

\* the options configure() may be given: the default and two explicit prefixes
PrefixConfigs == { <<"tests/">>, <<"tests", "pkg/">> }

-----------------------------------------------------------------------------
(* wantMethod *)

\* filename = inspect.getfile(method), made relative to self.root
RelFile(m, rt) ==
    IF rt # "" /\ startswith(m.file, rt) THEN StrFrom(m.file, Len(rt)) ELSE m.file

\* lines, startlineno = inspect.getsourcelines(method), method being the class
SourceRange(m) == m.cls_start .. (m.cls_start + m.cls_len - 1)

HasPrefix(filename, pfx) == \E i \in 1..Len(pfx) : startswith(filename, pfx[i])

\* IsModifiedTest over xrange(startlineno, len(lines))
IsModifiedTest_NoOffset(m, dd) == \E lineno \in m.cls_start .. (m.cls_len - 1) : lineno \in dd

\* the first loop returns True: a line of the source range is in the diff
IsModifiedTest(m, dd) == \E lineno \in SourceRange(m) : lineno \in dd

\* MatchesPending that also accepts a file path that is a prefix of a pending path
MatchesPending_Either(filename, pfx, pending) ==
    /\ HasPrefix(filename, pfx)
    /\ \E p \in pending : startswith(filename, p) \/ startswith(p, filename)

\* the second loop returns True
MatchesPending(filename, pfx, pending) ==
    HasPrefix(filename, pfx) /\ \E p \in pending : startswith(filename, p)

wantMethod(m) ==
    LET filename == RelFile(m, root)
        dd       == DefaultGet(diff_data, filename)
        modified == dd # {} /\ IsModifiedTest(m, dd)
    IN  /\ diff_data' = DefaultTouch(diff_data, filename)
        /\ tests_run' = IF HasPrefix(filename, prefixes)
                        THEN tests_run \cup {filename} ELSE tests_run
        /\ ret' = [ method |-> m.name,
                    result |-> modified \/ MatchesPending(filename, prefixes, pending_files) ]

-----------------------------------------------------------------------------
(* begin *)

begin(fs) ==
    LET st == BeginLoop(fs, 1, prefixes,
                        [diff |-> diff_data, pending |-> pending_files, root |-> root])
    IN  /\ files' = fs
        /\ diff_data' = st.diff
        /\ pending_files' = st.pending
        /\ root' = st.root
        /\ tests_run' = {}

-----------------------------------------------------------------------------
(* Initial state: after configure() *)

EmptyDict == [k \in {} |-> {}]

Init ==
    /\ phase = "configured"
    /\ prefixes \in PrefixConfigs
    /\ files = <<>>
    /\ diff_data = EmptyDict
    /\ pending_files = {}
    /\ root = ""
    /\ tests_run = {}
    /\ ret = [method |-> None, result |-> FALSE]
    /\ n_want = 0
    /\ cov = [started |-> FALSE, data |-> EmptyDict]
    /\ test_cov_data = EmptyDict
    /\ importtime_cov_data = EmptyDict
    /\ test_to_module_map = EmptyDict
    /\ running = None
    /\ importing = None
    /\ executed = {}
    /\ n_brackets = 0
    /\ n_exec = 0
    /\ rp = [pc |-> "idle"]
    /\ missing = EmptyDict
    /\ data = EmptyDict
    /\ report_file = None

-----------------------------------------------------------------------------
(* Selection: begin() on any diff of the bound, then wantMethod calls *)

BeginAny ==
    /\ phase = "configured"
    /\ \E fs \in Diffs : begin(fs)
    /\ phase' = "running"
    /\ UNCHANGED <<prefixes, ret, n_want, covvars, runvars, repvars>>

WantMethod ==
    /\ phase = "running" /\ running = None /\ importing = None
    /\ n_want < MaxWant /\ n_want + n_brackets < MaxCalls
    /\ \E m \in Methods : wantMethod(m)
    /\ n_want' = n_want + 1
    /\ UNCHANGED <<phase, prefixes, files, pending_files, root, covvars, runvars, repvars>>

NextSelect == BeginAny \/ WantMethod

SpecSelect == Init /\ [][NextSelect]_vars

-----------------------------------------------------------------------------
(* The line capture (coverage.coverage) as the plugin drives it *)

\* an erase() that leaves the measured lines in place
cov_erase_Keep(c) == c

cov_start(c) == [c EXCEPT !.started = TRUE]
cov_stop(c)  == [c EXCEPT !.started = FALSE]
cov_erase(c) == [c EXCEPT !.data = EmptyDict]

\* the tracer notes an executed line while the capture is started
cov_trace(c, filename, lineno) ==
    IF c.started THEN [c EXCEPT !.data = DictUpdate(c.data, filename, {lineno})] ELSE c

\* record_coverage_data without the "if cov_linenos" test
record_coverage_data_Always(cov_data, c, dd) ==
    LET hit == (DOMAIN c.data) \cap (DOMAIN dd)
    IN  [ f \in (DOMAIN cov_data) \cup hit |->
            (IF f \in DOMAIN cov_data THEN cov_data[f] ELSE {})
            \cup (IF f \in hit THEN c.data[f] \cap dd[f] ELSE {}) ]

\* record_coverage_data(cov_data): the executed lines of every measured file
\* that is a key of diff_data, intersected with its changed lines; a file
\* with an empty intersection is left out
record_coverage_data(cov_data, c, dd) ==
    LET hit == { f \in (DOMAIN c.data) \cap (DOMAIN dd) : c.data[f] \cap dd[f] # {} }
    IN  [ f \in (DOMAIN cov_data) \cup hit |->
            (IF f \in DOMAIN cov_data THEN cov_data[f] ELSE {})
            \cup (IF f \in hit THEN c.data[f] \cap dd[f] ELSE {}) ]

\* a defaultdict(lambda: defaultdict(set)) read
DefaultGetDict(d, k) == IF k \in DOMAIN d THEN d[k] ELSE EmptyDict

\* d[k] = v
DictSet(d, k, v) == IF k \in DOMAIN d THEN [d EXCEPT ![k] = v] ELSE (k :> v) @@ d

beforeImport(module) ==
    /\ cov' = cov_start(cov)
    /\ UNCHANGED <<test_cov_data, importtime_cov_data, test_to_module_map>>

afterImport(module) ==
    LET stopped  == cov_stop(cov)
        cov_data == DefaultGetDict(importtime_cov_data, module)
    IN  /\ importtime_cov_data' =
              DictSet(importtime_cov_data, module,
                      record_coverage_data(cov_data, stopped, diff_data))
        /\ cov' = cov_erase(stopped)
        /\ UNCHANGED <<test_cov_data, test_to_module_map>>

startTest(t) ==
    /\ cov' = cov_start(cov)
    /\ UNCHANGED <<test_cov_data, importtime_cov_data, test_to_module_map>>

stopTest(t) ==
    LET stopped  == cov_stop(cov)
        cov_data == DefaultGetDict(test_cov_data, t.name)
    IN  /\ test_to_module_map' = DictSet(test_to_module_map, t.name, t.module)
        /\ test_cov_data' =
              DictSet(test_cov_data, t.name,
                      record_coverage_data(cov_data, stopped, diff_data))
        /\ cov' = cov_erase(stopped)
        /\ UNCHANGED importtime_cov_data

-----------------------------------------------------------------------------
(* The run nose drives: begin, then brackets, then report *)

AddedBody == << [kind |-> "added", text |-> "x"], [kind |-> "added", text |-> "x"] >>

\* the diffs of the runs with captures: a modified file with one added line
\* (its line 11 is unchanged) and a new file with two, and no change at all
ScenarioDiffs ==
    { << FileDiffRecord(FALSE, "a/pkg/foo.py", "b/pkg/foo.py", << SubSeq(AddedBody, 1, 1) >>),
         FileDiffRecord(FALSE, DevNull, "b/pkg/new.py", <<AddedBody>>) >>,
      << >> }

\* the tests that run and the modules nose imports
RunTests == { m \in Methods : m.name \in { "tests.pkg.foo:FooTest.test_a",
                                           "tests.pkg.test_bar:BarTest.test_a" } }
Modules == { m.module : m \in RunTests }

\* the lines the code under test may execute
ExecFiles == { "pkg/foo.py", "pkg/new.py" }
ExecLines == { 10, 11 }

TestByName(n) == CHOOSE m \in Methods : m.name = n

Begin ==
    /\ phase = "configured"
    /\ \E fs \in ScenarioDiffs : begin(fs)
    /\ phase' = "running"
    /\ UNCHANGED <<prefixes, ret, n_want, covvars, runvars, repvars>>

StartTest ==
    /\ phase = "running" /\ running = None /\ importing = None
    /\ n_want + n_brackets < MaxCalls
    /\ \E t \in RunTests : startTest(t) /\ running' = t.name
    /\ n_brackets' = n_brackets + 1
    /\ UNCHANGED <<phase, selvars, importing, executed, n_exec, repvars>>

StopTest ==
    /\ phase = "running" /\ running # None /\ importing = None
    /\ stopTest(TestByName(running))
    /\ running' = None
    /\ UNCHANGED <<phase, selvars, importing, executed, n_brackets, n_exec, repvars>>

BeforeImport ==
    /\ phase = "running" /\ importing = None
    /\ n_want + n_brackets < MaxCalls
    /\ \E m \in Modules : beforeImport(m) /\ importing' = m
    /\ n_brackets' = n_brackets + 1
    /\ UNCHANGED <<phase, selvars, running, executed, n_exec, repvars>>

AfterImport ==
    /\ phase = "running" /\ importing # None
    /\ afterImport(importing)
    /\ importing' = None
    /\ UNCHANGED <<phase, selvars, running, executed, n_brackets, n_exec, repvars>>

\* the code under test executes a line inside a bracket
Exec ==
    /\ phase = "running" /\ (running # None \/ importing # None)
    /\ n_exec < MaxExec
    /\ \E f \in ExecFiles, l \in ExecLines :
          /\ cov' = cov_trace(cov, f, l)
          /\ executed' = IF running # None THEN executed \cup {<<running, f, l>>}
                         ELSE executed
    /\ n_exec' = n_exec + 1
    /\ UNCHANGED <<phase, selvars, test_cov_data, importtime_cov_data,
                   test_to_module_map, running, importing, n_brackets, repvars>>

-----------------------------------------------------------------------------
(* report -> _report_test_coverage, statement by statement; a Python dict   *)
(* is iterated in an order the program does not choose                      *)

\* dict((k, v) for k in linenos)
Leaves(linenos, v) == [k \in linenos |-> v]

\* d.update(e)
dict_update(d, e) == e @@ d

\* data[test][filename] = v, data being a defaultdict(dict)
DataSet(d, test, filename, v) ==
    DictSet(d, test, DictSet(DefaultGetDict(d, test), filename, v))

\* lines 299, 301: missing[filename] = linenos.difference(covered_linenos)
DirectMissing(linenos, covered_linenos) == linenos \ covered_linenos

\* ImportMissing without the difference
ImportMissing_Keep(miss, covered_linenos) == miss

\* line 315: missing[filename] = missing[filename].difference(covered_linenos)
ImportMissing(miss, covered_linenos) == miss \ covered_linenos

\* lines 281-290
ReportBegin ==
    /\ phase = "running" /\ running = None /\ importing = None
    /\ phase' = "reporting"
    /\ missing' = EmptyDict
    /\ data' = EmptyDict
    /\ rp' = [pc |-> "tests", tests_left |-> DOMAIN test_cov_data]
    /\ UNCHANGED <<selvars, covvars, runvars, report_file>>

\* ReportNextTest that reads data[test] of the defaultdict and so creates
\* the test's entry before any file is reported for it
ReportNextTest_TouchData ==
    /\ phase = "reporting" /\ rp.pc = "tests"
    /\ \E test \in rp.tests_left :
          /\ rp' = [pc |-> "direct", tests_left |-> rp.tests_left \ {test},
                    test |-> test, files_left |-> DOMAIN test_cov_data[test]]
          /\ data' = IF test \in DOMAIN data THEN data ELSE (test :> EmptyDict) @@ data
    /\ UNCHANGED <<phase, selvars, covvars, runvars, missing, report_file>>

\* line 292: the next test of test_cov_data.iteritems()
ReportNextTest ==
    /\ phase = "reporting" /\ rp.pc = "tests"
    /\ \E test \in rp.tests_left :
          rp' = [pc |-> "direct", tests_left |-> rp.tests_left \ {test},
                 test |-> test, files_left |-> DOMAIN test_cov_data[test]]
    /\ UNCHANGED <<phase, selvars, covvars, runvars, missing, data, report_file>>

\* lines 293-301: the next file of the test's own coverage
ReportDirectCovered ==
    /\ phase = "reporting" /\ rp.pc = "direct"
    /\ \E filename \in rp.files_left :
          LET covered_linenos == test_cov_data[rp.test][filename]
              linenos         == DefaultGet(diff_data, filename)
          IN  /\ diff_data' = DefaultTouch(diff_data, filename)
              /\ missing' = DictSet(missing, filename,
                                    DirectMissing(linenos, covered_linenos))
              /\ data' = DataSet(data, rp.test, filename, Leaves(covered_linenos, 1))
              /\ rp' = [pc |-> "direct0", tests_left |-> rp.tests_left, test |-> rp.test,
                        files_left |-> rp.files_left \ {filename}, filename |-> filename]
    /\ UNCHANGED <<phase, prefixes, files, pending_files, root, tests_run, ret, n_want,
                   covvars, runvars, report_file>>

\* line 302
ReportDirectMissing ==
    /\ phase = "reporting" /\ rp.pc = "direct0"
    /\ data' = DataSet(data, rp.test, rp.filename,
                       dict_update(data[rp.test][rp.filename],
                                   Leaves(missing[rp.filename], 0)))
    /\ rp' = [pc |-> "direct", tests_left |-> rp.tests_left, test |-> rp.test,
              files_left |-> rp.files_left]
    /\ UNCHANGED <<phase, selvars, covvars, runvars, missing, report_file>>

\* lines 304-306, and line 309 entering the import-time loop
ReportModule ==
    /\ phase = "reporting" /\ rp.pc = "direct" /\ rp.files_left = {}
    /\ LET known == rp.test \in DOMAIN test_to_module_map
           module == IF known THEN test_to_module_map[rp.test] ELSE None
       IN  IF ~known \/ module \notin DOMAIN importtime_cov_data
           THEN rp' = [pc |-> "tests", tests_left |-> rp.tests_left]
           ELSE rp' = [pc |-> "import", tests_left |-> rp.tests_left, test |-> rp.test,
                       module |-> module,
                       files_left |-> DOMAIN importtime_cov_data[module]]
    /\ UNCHANGED <<phase, selvars, covvars, runvars, missing, data, report_file>>

\* lines 309-320: the next file of the module's import-time coverage
ReportImportCovered ==
    /\ phase = "reporting" /\ rp.pc = "import"
    /\ \E filename \in rp.files_left :
          LET covered_linenos == importtime_cov_data[rp.module][filename]
              miss    == ImportMissing(DefaultGet(missing, filename), covered_linenos)
              present == DefaultGetDict(DefaultGetDict(data, rp.test), filename)
          IN  /\ missing' = DictSet(missing, filename, miss)
              /\ data' = DataSet(data, rp.test, filename,
                                 dict_update(present, Leaves(covered_linenos, 1)))
              /\ rp' = [pc |-> "import0", tests_left |-> rp.tests_left, test |-> rp.test,
                        module |-> rp.module,
                        files_left |-> rp.files_left \ {filename}, filename |-> filename]
    /\ UNCHANGED <<phase, selvars, covvars, runvars, report_file>>

\* line 321
ReportImportMissing ==
    /\ phase = "reporting" /\ rp.pc = "import0"
    /\ data' = DataSet(data, rp.test, rp.filename,
                       dict_update(data[rp.test][rp.filename],
                                   Leaves(missing[rp.filename], 0)))
    /\ rp' = [pc |-> "import", tests_left |-> rp.tests_left, test |-> rp.test,
              module |-> rp.module, files_left |-> rp.files_left]
    /\ UNCHANGED <<phase, selvars, covvars, runvars, missing, report_file>>

\* the import-time loop is exhausted: back to line 292
ReportImportEnd ==
    /\ phase = "reporting" /\ rp.pc = "import" /\ rp.files_left = {}
    /\ rp' = [pc |-> "tests", tests_left |-> rp.tests_left]
    /\ UNCHANGED <<phase, selvars, covvars, runvars, missing, data, report_file>>

RECURSIVE SumOver(_, _)
SumOver(S, f) ==
    IF S = {} THEN 0
    ELSE LET x == CHOOSE y \in S : TRUE IN f[x] + SumOver(S \ {x}, f)

\* lines 323-325: total += len(lines)
CountTotal(d) ==
    SumOver(DOMAIN d, [test \in DOMAIN d |->
        SumOver(DOMAIN d[test], [filename \in DOMAIN d[test] |->
            Cardinality(DOMAIN d[test][filename])])])

\* CountCovered without the "if v"
CountCovered_All(d) ==
    SumOver(DOMAIN d, [test \in DOMAIN d |->
        SumOver(DOMAIN d[test], [filename \in DOMAIN d[test] |->
            Cardinality(DOMAIN d[test][filename])])])

\* lines 323-326: covered += sum(1 for v in lines.itervalues() if v)
CountCovered(d) ==
    SumOver(DOMAIN d, [test \in DOMAIN d |->
        SumOver(DOMAIN d[test], [filename \in DOMAIN d[test] |->
            Cardinality({k \in DOMAIN d[test][filename] : d[test][filename][k] # 0})])])

\* lines 323-336
ReportWrite ==
    /\ phase = "reporting" /\ rp.pc = "tests" /\ rp.tests_left = {}
    /\ report_file' = [ stats |-> [covered |-> CountCovered(data), total |-> CountTotal(data)],
                        tests |-> data ]
    /\ rp' = [pc |-> "done"]
    /\ phase' = "reported"
    /\ UNCHANGED <<selvars, covvars, runvars, missing, data>>

Next ==
    \/ Begin
    \/ WantMethod
    \/ StartTest
    \/ StopTest
    \/ BeforeImport
    \/ AfterImport
    \/ Exec
    \/ ReportBegin
    \/ ReportNextTest
    \/ ReportDirectCovered
    \/ ReportDirectMissing
    \/ ReportModule
    \/ ReportImportCovered
    \/ ReportImportMissing
    \/ ReportImportEnd
    \/ ReportWrite

Spec == Init /\ [][Next]_vars

-----------------------------------------------------------------------------
(* The same run with the hooks also called out of order: the handlers have  *)
(* no guard of their own                                                    *)

\* startTest while a bracket is open
MisuseStartTest ==
    /\ phase = "running" /\ (running # None \/ importing # None)
    /\ n_want + n_brackets < MaxCalls
    /\ \E t \in RunTests : startTest(t) /\ running' = t.name
    /\ n_brackets' = n_brackets + 1
    /\ UNCHANGED <<phase, selvars, importing, executed, n_exec, repvars>>

\* stopTest with no test bracket open
MisuseStopTest ==
    /\ phase = "running" /\ running = None
    /\ n_want + n_brackets < MaxCalls
    /\ \E t \in RunTests : stopTest(t)
    /\ n_brackets' = n_brackets + 1
    /\ UNCHANGED <<phase, selvars, running, importing, executed, n_exec, repvars>>

\* beforeImport while an import bracket is open
MisuseBeforeImport ==
    /\ phase = "running" /\ importing # None
    /\ n_want + n_brackets < MaxCalls
    /\ \E m \in Modules : beforeImport(m) /\ importing' = m
    /\ n_brackets' = n_brackets + 1
    /\ UNCHANGED <<phase, selvars, running, executed, n_exec, repvars>>

\* afterImport with no import bracket open
MisuseAfterImport ==
    /\ phase = "running" /\ importing = None
    /\ n_want + n_brackets < MaxCalls
    /\ \E m \in Modules : afterImport(m)
    /\ n_brackets' = n_brackets + 1
    /\ UNCHANGED <<phase, selvars, running, importing, executed, n_exec, repvars>>

Misuse == MisuseStartTest \/ MisuseStopTest \/ MisuseBeforeImport \/ MisuseAfterImport

NextMisuse ==
    \/ Next
    \/ MisuseStartTest
    \/ MisuseStopTest
    \/ MisuseBeforeImport
    \/ MisuseAfterImport

SpecMisuse == Init /\ [][NextMisuse]_vars

-----------------------------------------------------------------------------
(* Vocabulary of the properties *)

\* the file records begin() does not skip as header, deletion or non-source
SourceRecords ==
    { i \in 1..Len(files) :
        /\ ~files[i].is_header
        /\ files[i].new_filename # DevNull
        /\ startswith(files[i].new_filename, "b/")
        /\ is_py_script(StrFrom(files[i].new_filename, 2)) }

IsNewRecord(i) == files[i].old_filename = DevNull

\* root-relative paths of the changed source files that existed before
ChangedExisting == { StrFrom(files[i].new_filename, 2) : i \in {j \in SourceRecords : ~IsNewRecord(j)} }

\* root-relative paths of the newly created source files
NewFiles == { StrFrom(files[i].new_filename, 2) : i \in {j \in SourceRecords : IsNewRecord(j)} }

\* P/d/test_n.py for the source file d/n.py
ConventionTestPath(P, path) ==
    LET slashes == {i \in 1..Len(path) : SubSeq(path, i, i) = "/"}
        last    == IF slashes = {} THEN 0 ELSE CHOOSE i \in slashes : \A j \in slashes : j <= i
    IN  os_path_join(P, SubSeq(path, 1, last) \o "test_" \o SubSeq(path, last + 1, Len(path)))

PrefixSet == { prefixes[i] : i \in 1..Len(prefixes) }

\* wantMethod has just answered for m
Answered(m) == phase = "running" /\ ret.method = m.name

\* the changed lines of the file that defines m
ChangedIn(m) == DefaultGet(diff_data, RelFile(m, root))

\* the method's own source lines
OwnRange(m) == m.m_start .. (m.m_start + m.m_len - 1)

-----------------------------------------------------------------------------
\* C1 (as stated): for every changed, non-new source file d/n.py and every
\* configured prefix P, a test defined in P/d/test_n.py is selected by
\* wantMethod.
C1_ConventionSelected ==
    \A m \in Methods :
        ( /\ Answered(m)
          /\ \E f \in ChangedExisting, P \in PrefixSet :
                RelFile(m, root) = ConventionTestPath(P, f) )
        => ret.result

\* C1 (amended): for every changed, non-new source file d/n.py and every
\* configured prefix P, a test whose root-relative file path starts with
\* join(P, d/n) (tests/pkg/foo.py, tests/pkg/foo/test_x.py) is selected.
C1_PendingPrefixSelected ==
    \A m \in Methods :
        ( /\ Answered(m)
          /\ \E f \in ChangedExisting, P \in PrefixSet :
                startswith(RelFile(m, root), os_path_join(P, rsplit_dot(f))) )
        => ret.result

\* C1 witness: pkg/foo.py is changed, the test file is not in the diff, and
\* the test of tests/pkg/foo/test_x.py has been selected
C1_Witness ==
    /\ \E m \in Methods : Answered(m) /\ RelFile(m, root) = "tests/pkg/foo/test_x.py"
    /\ ret.result
    /\ "pkg/foo.py" \in ChangedExisting
    /\ "tests/pkg/foo/test_x.py" \notin DOMAIN diff_data \/ diff_data["tests/pkg/foo/test_x.py"] = {}

-----------------------------------------------------------------------------
\* C4: wantMethod returns False for every test whose file path matches no
\* entry of PendingTestPaths (as a prefix, in either direction) and whose own
\* method body contains no changed line of its defining file.
C4_NoOverSelection ==
    \A m \in Methods :
        ( /\ Answered(m)
          /\ \A p \in pending_files :
                /\ ~startswith(RelFile(m, root), p)
                /\ ~startswith(p, RelFile(m, root))
          /\ OwnRange(m) \cap ChangedIn(m) = {} )
        => ~ret.result

-----------------------------------------------------------------------------
-----------------------------------------------------------------------------
\* the new_lineno values of the added lines of all hunks of the records of a file
AddedLinenos(name) ==
    UNION { UNION { { files[i].chunks[h][k].new_lineno :
                        k \in { n \in 1..Len(files[i].chunks[h]) :
                                  files[i].chunks[h][n].action = "added" } } :
                    h \in 1..Len(files[i].chunks) } :
            i \in { j \in SourceRecords : StrFrom(files[j].new_filename, 2) = name } }

\* C9: after begin(), for every non-deleted recognized source file of the diff
\* the ChangeSet entry is exactly the set of new_lineno values of the added
\* lines of all its hunks: context and removed lines contribute nothing,
\* every added line (also one with empty text) contributes its number.
C9_ChangeSetIsAddedLines ==
    (phase = "running" /\ n_want = 0) =>
        \A i \in SourceRecords :
            LET name == StrFrom(files[i].new_filename, 2)
            IN  DefaultGet(diff_data, name) = AddedLinenos(name)

-----------------------------------------------------------------------------
(* Vocabulary of the coverage properties *)

\* the leaf of (test, filename, lineno) in a test -> file -> line structure,
\* -1 when there is none
Leaf(d, t, f, l) ==
    IF t \in DOMAIN d /\ f \in DOMAIN d[t] /\ l \in DOMAIN d[t][f] THEN d[t][f][l] ELSE -1

\* the (test, filename, lineno) leaves of a structure
LeafSet(d) ==
    UNION { UNION { { <<t, f, l>> : l \in DOMAIN d[t][f] } : f \in DOMAIN d[t] } : t \in DOMAIN d }

HasEntry(d, t, f) == t \in DOMAIN d /\ f \in DOMAIN d[t]

\* the lines captured for the test itself
OwnLines(t, f) == DefaultGet(DefaultGetDict(test_cov_data, t), f)

\* the lines captured when the test's module was imported
ImportLines(t, f) ==
    IF t \in DOMAIN test_to_module_map
    THEN DefaultGet(DefaultGetDict(importtime_cov_data, test_to_module_map[t]), f)
    ELSE {}

HasImportEntry(t, f) ==
    /\ t \in DOMAIN test_to_module_map
    /\ f \in DOMAIN DefaultGetDict(importtime_cov_data, test_to_module_map[t])

-----------------------------------------------------------------------------
\* C2: no line of a newly created file (old filename /dev/null) is ever in a
\* missing set of _report_test_coverage, nor reported with value 0 for a test.
C2_NewFileNeverMissing ==
    \A f \in NewFiles :
        /\ DefaultGet(missing, f) = {}
        /\ \A t \in DOMAIN data : \A l \in DefaultGet(diff_data, f) : Leaf(data, t, f, l) # 0

-----------------------------------------------------------------------------
\* C3: while the report is assembled, a leaf that is 1 is never set to 0 (nor
\* dropped) by a later merge step.
C3_MonotoneMerge ==
    [][ \A x \in LeafSet(data) :
          Leaf(data, x[1], x[2], x[3]) = 1 => Leaf(data', x[1], x[2], x[3]) = 1 ]_vars

\* C3 witness: the report is written, and a changed line that the test's own
\* capture of the file missed is 1 from the import-time capture of its module
C3_Witness ==
    /\ phase = "reported"
    /\ \E x \in LeafSet(data) :
          /\ x[2] \in DOMAIN test_cov_data[x[1]]
          /\ x[3] \notin OwnLines(x[1], x[2])
          /\ x[3] \in ImportLines(x[1], x[2])
          /\ Leaf(data, x[1], x[2], x[3]) = 1

-----------------------------------------------------------------------------
\* C6: every changed line executed between a test's startTest and its
\* stopTest is classified 1 for that test in the report, also when an import
\* bracket lies inside the test's bracket.
C6_CaptureComplete ==
    phase = "reported" =>
        \A x \in executed :
            x[3] \in DefaultGet(diff_data, x[2]) => Leaf(report_file.tests, x[1], x[2], x[3]) = 1

-----------------------------------------------------------------------------
\* C7: a hook called out of order (startTest or beforeImport while a bracket
\* is open, stopTest or afterImport with none open) is rejected: it records
\* and merges no coverage data.
C7_MisuseRejected ==
    [][ Misuse => UNCHANGED <<cov, test_cov_data, importtime_cov_data, test_to_module_map>> ]_vars

-----------------------------------------------------------------------------
\* C8 (as stated): for every test that ran and every file with a non-empty
\* ChangeSet entry the report has an entry (test, file) whose keys are the
\* file's changed lines, 1 on the lines executed in the test's bracket and 0
\* on the others, also when the test executed none of them.
C8_TotalClassification ==
    phase = "reported" =>
        \A t \in DOMAIN test_cov_data :
            \A f \in { g \in DOMAIN diff_data : diff_data[g] # {} } :
                /\ HasEntry(report_file.tests, t, f)
                /\ DOMAIN report_file.tests[t][f] = diff_data[f]
                /\ \A l \in diff_data[f] :
                      report_file.tests[t][f][l] = (IF <<t, f, l>> \in executed THEN 1 ELSE 0)

\* C8 (amended): for every test that ran and every file of which the test's
\* own brackets captured a changed line, the report has an entry (test, file)
\* whose keys are exactly the file's changed lines, 1 on the lines captured
\* for the test or at the import of its module and 0 on the others; a file
\* of which the test captured no changed line has no entry in the test's own
\* data, and none in the report unless the import-time data of the test's
\* module has one.
C8_CapturedClassification ==
    phase = "reported" =>
        \A t \in DOMAIN test_cov_data :
            \A f \in DOMAIN diff_data :
                /\ f \in DOMAIN test_cov_data[t] <=> OwnLines(t, f) # {}
                /\ OwnLines(t, f) # {} =>
                      /\ HasEntry(report_file.tests, t, f)
                      /\ DOMAIN report_file.tests[t][f] = diff_data[f]
                      /\ \A l \in diff_data[f] :
                            report_file.tests[t][f][l] =
                                (IF l \in OwnLines(t, f) \cup ImportLines(t, f) THEN 1 ELSE 0)
                /\ (OwnLines(t, f) = {} /\ ~HasImportEntry(t, f)) =>
                      ~HasEntry(report_file.tests, t, f)

\* C8 witness: a test ran, captured a changed line of one changed file and
\* none of the other, and the report is written
C8_Witness ==
    /\ phase = "reported"
    /\ \E t \in DOMAIN test_cov_data :
          \E f, g \in { h \in DOMAIN diff_data : diff_data[h] # {} } :
              /\ OwnLines(t, f) # {} /\ OwnLines(t, f) # diff_data[f]
              /\ HasEntry(report_file.tests, t, f)
              /\ OwnLines(t, g) = {}
              /\ ~HasEntry(report_file.tests, t, g)

-----------------------------------------------------------------------------
\* C10: stats.total is the number of (test, file, line) leaves of tests,
\* stats.covered the number of leaves that are 1, every leaf is 0 or 1 and
\* covered <= total.
C10_StatsConsistent ==
    phase = "reported" =>
        LET leaves == LeafSet(report_file.tests)
            ones   == { x \in leaves : Leaf(report_file.tests, x[1], x[2], x[3]) = 1 }
        IN  /\ report_file.stats.total = Cardinality(leaves)
            /\ report_file.stats.covered = Cardinality(ones)
            /\ \A x \in leaves : Leaf(report_file.tests, x[1], x[2], x[3]) \in {0, 1}
            /\ report_file.stats.covered <= report_file.stats.total

\* C10 witness: a written report with covered and missing leaves
C10_Witness ==
    /\ phase = "reported"
    /\ report_file.stats.covered > 0
    /\ report_file.stats.total > report_file.stats.covered

-----------------------------------------------------------------------------
\* the file records of the diff that describe a removed file
DeletedRecords ==
    { i \in 1..Len(files) : ~files[i].is_header /\ files[i].new_filename = DevNull }

\* the diff with the records of removed files taken out
WithoutDeleted(fs) ==
    SelectSeq(fs, LAMBDA r : r.is_header \/ r.new_filename # DevNull)

\* what begin() leaves for the diff fs: [diff, pending, root]
BeginResult(fs) ==
    BeginLoop(fs, 1, prefixes, [diff |-> EmptyDict, pending |-> {}, root |-> ""])

\* C11: a file record whose new filename is /dev/null contributes nothing:
\* begin() leaves the same changed lines and the same pending test paths as
\* for the diff without the record, no key of the ChangeSet is the removed
\* file's path or a remainder of "/dev/null", and no pending path is built
\* from either.
C11_DeletionExcluded ==
    (phase = "running" /\ n_want = 0) =>
        /\ pending_files = BeginResult(WithoutDeleted(files)).pending
        /\ diff_data = BeginResult(WithoutDeleted(files)).diff
        /\ \A i \in DeletedRecords :
              LET old == StrFrom(files[i].old_filename, 2)
                  new == StrFrom(files[i].new_filename, 2)
              IN  /\ old \notin ChangedExisting \cup NewFiles =>
                        /\ old \notin DOMAIN diff_data
                        /\ PendingFor(prefixes, old) \cap pending_files = {}
                  /\ new \notin DOMAIN diff_data
                  /\ PendingFor(prefixes, new) \cap pending_files = {}

\* begin() has parsed a diff in which a removed file's record carries line
\* numbers, next to a changed file that has pending test paths
C11_Witness ==
    /\ phase = "running" /\ n_want = 0
    /\ pending_files # {}
    /\ \E i \in DeletedRecords :
          \E h \in 1..Len(files[i].chunks) : ChunkLinenos(files[i].chunks[h]) # {}

-----------------------------------------------------------------------------
\* the report of a run in which nothing was reported for any test
EmptyReport == [ stats |-> [covered |-> 0, total |-> 0], tests |-> EmptyDict ]

\* C12: when the diff is empty, begin() leaves the ChangeSet and
\* PendingTestPaths empty, no hook ever records a changed line, wantMethod
\* answers False for every test, and whatever tests and imports were
\* bracketed the report is {"stats": {"covered": 0, "total": 0}, "tests": {}}.
C12_EmptyDiff ==
    (phase # "configured" /\ files = <<>>) =>
        /\ pending_files = {}
        /\ n_want = 0 => diff_data = EmptyDict
        /\ \A f \in DOMAIN diff_data : diff_data[f] = {}
        /\ ret.result = FALSE
        /\ phase = "reported" => report_file = EmptyReport

\* the report of a run on an empty diff in which wantMethod was asked, a test
\* ran and executed lines, and a module was imported
C12_Witness ==
    /\ phase = "reported" /\ files = <<>>
    /\ n_want > 0
    /\ executed # {}
    /\ DOMAIN test_cov_data # {}
    /\ DOMAIN importtime_cov_data # {}

-----------------------------------------------------------------------------
\* the pending test paths the convention gives for the source files S
PendingPathsOf(S) == { os_path_join(P, rsplit_dot(f)) : P \in PrefixSet, f \in S }

\* the records of newly created source files that carry line numbers
NewRecordsWithLines ==
    { i \in SourceRecords :
        /\ IsNewRecord(i)
        /\ \E h \in 1..Len(files[i].chunks) : ChunkLinenos(files[i].chunks[h]) # {} }

\* C13: after begin(), PendingTestPaths is exactly the set of
\* join(prefix, path without its extension) over the configured prefixes and
\* the changed source files that are neither new nor deleted; a newly
\* created file gives no pending path, although its line numbers are in the
\* ChangeSet.
C13_PendingContent ==
    (phase = "running" /\ n_want = 0) =>
        /\ pending_files = PendingPathsOf(ChangedExisting)
        /\ PendingPathsOf(NewFiles \ ChangedExisting) \cap pending_files = {}
        /\ \A i \in NewRecordsWithLines :
              \A h \in 1..Len(files[i].chunks) :
                  ChunkLinenos(files[i].chunks[h])
                      \subseteq DefaultGet(diff_data, StrFrom(files[i].new_filename, 2))

\* begin() has parsed a diff with a new file that carries line numbers and a
\* changed file that existed before
C13_Witness ==
    /\ phase = "running" /\ n_want = 0
    /\ NewRecordsWithLines # {}
    /\ ChangedExisting # {}
    /\ pending_files # {}

-----------------------------------------------------------------------------
\* rule 1 as wantMethod applies it: a changed line in the inspected source range
Rule1Selects(m) == ChangedIn(m) # {} /\ IsModifiedTest(m, ChangedIn(m))

\* C14 (as stated): a test not selected by rule 1 whose file path starts
\* with a configured prefix is selected when its file path is a prefix of a
\* pending path, and also when a pending path is a prefix of its file path.
C14_BothDirections ==
    \A m \in Methods :
        LET filename == RelFile(m, root)
        IN  ( /\ Answered(m)
              /\ ~Rule1Selects(m)
              /\ HasPrefix(filename, prefixes)
              /\ \E p \in pending_files :
                    startswith(p, filename) \/ startswith(filename, p) )
            => ret.result

\* C14 (amended): a test not selected by rule 1 whose file path starts with
\* a configured prefix is selected exactly when some pending path is a prefix
\* of its file path; a file path that is only a prefix of a pending path
\* does not select the test.
C14_PendingIsPrefixOfFile ==
    \A m \in Methods :
        LET filename == RelFile(m, root)
        IN  (Answered(m) /\ ~Rule1Selects(m) /\ HasPrefix(filename, prefixes))
            => (ret.result <=> \E p \in pending_files : startswith(filename, p))

\* wantMethod has answered False for a test under a configured prefix whose
\* file path is a proper prefix of a pending path, no pending path being a
\* prefix of the file path
C14_Witness ==
    \E m \in Methods :
        LET filename == RelFile(m, root)
        IN  /\ Answered(m)
            /\ ~Rule1Selects(m)
            /\ HasPrefix(filename, prefixes)
            /\ \E p \in pending_files : startswith(p, filename) /\ p # filename
            /\ \A p \in pending_files : ~startswith(filename, p)
            /\ ~ret.result

-----------------------------------------------------------------------------
\* the lines of file f executed inside the bracket of test t
ExecutedIn(t, f) == { x[3] : x \in { y \in executed : y[1] = t /\ y[2] = f } }

\* C15: when no capture is started (after every stopTest and every
\* afterImport) the capture buffer is empty, and every line recorded for a
\* test in test_cov_data was executed inside a bracket of that test, never
\* only during the bracket of another test or of an import.
C15_NoCaptureLeak ==
    /\ ~cov.started => cov.data = EmptyDict
    /\ \A t \in DOMAIN test_cov_data :
          \A f \in DOMAIN test_cov_data[t] :
              test_cov_data[t][f] \subseteq ExecutedIn(t, f)

\* two tests have been bracketed one after the other, each has a recorded
\* line the other did not execute, and the buffer is empty again
C15_Witness ==
    /\ running = None /\ importing = None
    /\ cov.data = EmptyDict
    /\ \E t1, t2 \in DOMAIN test_cov_data :
          /\ t1 # t2
          /\ \E f \in DOMAIN test_cov_data[t1] :
                \E l \in test_cov_data[t1][f] : l \notin ExecutedIn(t2, f)
          /\ \E f \in DOMAIN test_cov_data[t2] :
                \E l \in test_cov_data[t2][f] : l \notin ExecutedIn(t1, f)

-----------------------------------------------------------------------------
\* C16: once begin() has run, no hook (wantMethod, beforeImport,
\* afterImport, startTest, stopTest, report) changes the ChangeSet: neither
\* its set of file keys nor the line set of any file.
C16_ChangeSetFrozen ==
    [][phase # "configured" => diff_data' = diff_data]_vars

-----------------------------------------------------------------------------
\* the files reported for test t: those of its own capture and those of the
\* import-time capture of its module
EntryFiles(t) ==
    (DOMAIN DefaultGetDict(test_cov_data, t)) \cup { f \in ExecFiles : HasImportEntry(t, f) }

\* the entry of test t when _report_test_coverage reports t alone: for a
\* file of its own capture the changed lines of the file, 1 where the test
\* or the import of its module executed the line; for a file of the
\* import-time capture only, the lines of that capture
IsolatedEntry(t) ==
    [ f \in EntryFiles(t) |->
        LET covered == OwnLines(t, f) \cup ImportLines(t, f)
            linenos == IF f \in DOMAIN DefaultGetDict(test_cov_data, t)
                       THEN DefaultGet(diff_data, f) \cup covered
                       ELSE covered
        IN  [ l \in linenos |-> IF l \in covered THEN 1 ELSE 0 ] ]

\* C17: the report entry of a test is determined by the ChangeSet, the
\* test's own captured lines and the import-time lines of its module alone:
\* whatever the other tests captured and in whatever order the tests are
\* iterated, it is the entry the test gets when it is reported alone.
C17_EntriesIndependent ==
    phase = "reported" =>
        /\ DOMAIN report_file.tests = { t \in DOMAIN test_cov_data : EntryFiles(t) # {} }
        /\ \A t \in DOMAIN report_file.tests : report_file.tests[t] = IsolatedEntry(t)

====
